---- MODULE Spec2Model ----
(***************************************************************************)
(* Generation / evaluation / regeneration / review workflow of the Java    *)
(* peer-review training system (workflow/node.py, workflow/conditions.py,  *)
(* workflow/manager.py, langgraph_workflow.py, core/code_evaluation.py,    *)
(* core/student_response_evaluator.py).                                    *)
(*                                                                         *)
(* The WorkflowState object is the record `state`.  Python dicts are       *)
(* records, lists are sequences, and an optional value is a sequence of    *)
(* length 0 (None, or the empty dict) or 1.                                *)
(***************************************************************************)
EXTENDS Integers, Sequences, FiniteSets, TLC

VARIABLES
    state,                \* the WorkflowState of the session
    llm,                  \* a generative model is configured (code generator and code evaluation share it)
    last_call,            \* history: the entry point called last and whether it failed
    fresh_run,            \* history: only evaluate/regenerate calls, all evaluations incomplete, since the last successful generate call
    evals_in_run,         \* history: evaluate_code_node calls since the last generate_code_node call
    submitted_with_code,  \* history: submit_review calls made while a code artifact was present
    oracle_answer,        \* history: the verification oracle's answer in the last evaluate_code call
    repeated_answer,      \* history: the last two calls were evaluations that got the same oracle answer
    node,                 \* graph execution: the node to run next
    graph_evals,          \* graph execution: evaluate_code executions so far
    adapter_call,         \* components called directly: the last call, its arguments and what it returned
    empty_handled,        \* history: the adapters that were handed an empty response so far
    sessions,             \* two users: the WorkflowState instances driven through one WorkflowNodes object
    alone,                \* history: the state each of the two reaches when its calls are run without the other
    regens_in_run         \* history: regenerate_code_node calls made by the generation driver in its current run

vars == <<state, llm, last_call, fresh_run, evals_in_run, submitted_with_code,
          oracle_answer, repeated_answer, node, graph_evals, adapter_call,
          empty_handled, sessions, alone, regens_in_run>>

----------------------------------------------------------------------------
(* Bounds *)

MaxEvalBudget == 3      \* max_evaluation_attempts ranges over 1..MaxEvalBudget
MaxIterBudget == 3      \* max_iterations ranges over 1..MaxIterBudget
MaxReviews == 4         \* submit_review calls in a review loop
MaxFound == 2           \* length of the found_errors list of an oracle answer
ExtraEvals == 1         \* evaluate_code_node calls allowed beyond the budget
SessionEvalBudget == 2  \* max_evaluation_attempts in the mixed session
SessionIterBudget == 1  \* max_iterations in the mixed session
SessionReviews == 1     \* submit_review calls in the mixed session
MaxCount == 5           \* largest identified_count / total_problems of an oracle answer
MaxBase == 3            \* largest base count passed to get_errors_for_llm
DirectReviews == 3      \* submit_review calls made directly on the manager
PairBudget == 1         \* evaluation and review budget of each of two sessions

----------------------------------------------------------------------------
(* Optional values *)

None == <<>>
Some(x) == <<x>>
IsNone(o) == o = <<>>
Val(o) == o[1]

\* dict.get(key, default)
Get(d, key, default) == IF key \in DOMAIN d THEN d[key] ELSE default

\* str.upper() on the type strings that occur
Upper(t) ==
    CASE t = "build" -> "BUILD"
      [] t = "checkstyle" -> "CHECKSTYLE"
      [] OTHER -> t

\* the list [x for x in s if x in keep]
RECURSIVE FilterSeq(_, _)
FilterSeq(s, keep) ==
    IF s = <<>> THEN <<>>
    ELSE IF Head(s) \in keep THEN <<Head(s)>> \o FilterSeq(Tail(s), keep)
    ELSE FilterSeq(Tail(s), keep)

Range(s) == {s[i] : i \in DOMAIN s}

----------------------------------------------------------------------------
(* Defect catalog and oracle answers *)

NullPointerError == [type |-> "build", name |-> "NullPointer"]
MemberNameError == [type |-> "checkstyle", name |-> "MemberName"]

CategorySelections ==
    { [build |-> {}, checkstyle |-> {}],
      [build |-> {"NullHandling"}, checkstyle |-> {}],
      [build |-> {"NullHandling"}, checkstyle |-> {"Naming"}] }

\* the error lists get_errors_for_llm can return for a selection: a random
\* draw from the selected categories, empty when the catalog did not load
CatalogDraws(sel) ==
    LET b == IF sel.build # {} THEN {<<>>, <<NullPointerError>>} ELSE {<<>>}
        c == IF sel.checkstyle # {} THEN {<<>>, <<MemberNameError>>} ELSE {<<>>}
    IN {x \o y : x \in b, y \in c}

\* a source text is the sequence of its lines; a line is the code on it
\* (after the indentation) and the comment that ends it, "" where there is none
Line(code, comment) == [code |-> code, comment |-> comment]

ErrorComment == "// ERROR: NullPointer - the reference is null here"

\* a source whose NullPointer defect is annotated on a line of its own and
\* at the end of the defective statement
AnnotatedSource ==
    <<Line("String name = null;", ""),
      Line("", ErrorComment),
      Line("int n = name.length();", ErrorComment),
      Line("return n;", "")>>

\* the same source as the model writes it in a java-clean block
CleanSource ==
    <<Line("String name = null;", ""),
      Line("int n = name.length();", ""),
      Line("return n;", "")>>

Codes == {AnnotatedSource} \* annotated sources a generation can return
NoCode == <<>>             \* the empty text: what is extracted from a response without code block

FoundEntries ==
    { [error_type |-> "build", error_name |-> "NullPointer"],
      [error_type |-> "CHECKSTYLE", error_name |-> "MemberName"],
      [error_type |-> "CHECKSTYLE", error_name |-> "NullPointer"] }

FoundLists == UNION {[1..n -> FoundEntries] : n \in 0..MaxFound}

\* what the verification model answers: the call raises, the text is
\* empty, no JSON can be extracted, or a JSON object is parsed
Unanswered(k) == [kind |-> k, valid |-> FALSE, found_errors |-> <<>>]
OracleAnswers ==
    {Unanswered(k) : k \in {"raise", "empty", "unparseable"}}
    \cup {[kind |-> "parsed", valid |-> v, found_errors |-> f] :
             v \in BOOLEAN, f \in FoundLists}

NoAnswer == Unanswered("none")

----------------------------------------------------------------------------
(* core/code_evaluation.py *)

\* the lookup key f"{TYPE} - {name}" of a requested error
RequestedKey(error) == <<Upper(Get(error, "type", "")), Get(error, "name", "")>>

\* the lookup key f"{TYPE} - {name}" of an entry of the oracle's answer
FoundKey(error) == <<Upper(Get(error, "error_type", "")), Get(error, "error_name", "")>>

\* requested_keys: the keys in first-insertion order, one per key
RECURSIVE requested_keys(_)
requested_keys(requested_errors) ==
    IF requested_errors = <<>> THEN <<>>
    ELSE LET rest == requested_keys(Tail(requested_errors))
             k == RequestedKey(Head(requested_errors))
         IN <<k>> \o FilterSeq(rest, Range(rest) \ {k})

\* a result that reports the code complete
complete_result(requested_errors) ==
    [found_errors |-> <<>>,
     missing_errors |-> <<>>,
     valid |-> TRUE]

default_result(requested_errors) ==
    [found_errors |-> <<>>,
     missing_errors |-> requested_errors,
     valid |-> FALSE]

\* every entry of the answer, requested or not
unvalidated_found(found_errors, keys) == found_errors

\* entries of the answer whose key was requested, in the answer's order
RECURSIVE validated_found(_, _)
validated_found(found_errors, keys) ==
    IF found_errors = <<>> THEN <<>>
    ELSE IF FoundKey(Head(found_errors)) \in keys
         THEN <<Head(found_errors)>> \o validated_found(Tail(found_errors), keys)
         ELSE validated_found(Tail(found_errors), keys)

MissingEntry(key) == [error_type |-> key[1], error_name |-> key[2]]

RECURSIVE missing_errors(_, _)
missing_errors(keys, found_keys) ==
    IF keys = <<>> THEN <<>>
    ELSE IF Head(keys) \notin found_keys
         THEN <<MissingEntry(Head(keys))>> \o missing_errors(Tail(keys), found_keys)
         ELSE missing_errors(Tail(keys), found_keys)

\* result["valid"] as the result carries it in the end
TrustedValid(result, missing) == result.valid

ValidFlag(result, missing) == Len(missing) = 0

_process_evaluation_result(result, requested_errors) ==
    LET keys == requested_keys(requested_errors)
        found == validated_found(result.found_errors, Range(keys))
        found_keys == {FoundKey(e) : e \in Range(found)}
        missing == missing_errors(keys, found_keys)
    IN [found_errors |-> found,
        missing_errors |-> missing,
        valid |-> ValidFlag(result, missing)]

evaluate_code(has_llm, code, requested_errors, answer) ==
    IF ~has_llm THEN default_result(requested_errors)
    ELSE IF answer.kind # "parsed" THEN default_result(requested_errors)
    ELSE _process_evaluation_result(answer, requested_errors)

\* str.lower() on the words of the catalog and their upper-cased types
LowerCase(t) ==
    CASE t \in {"build", "BUILD"} -> "build"
      [] t \in {"checkstyle", "CHECKSTYLE"} -> "checkstyle"
      [] t = "NullPointer" -> "nullpointer"
      [] t = "MemberName" -> "membername"
      [] OTHER -> t

\* the requested entry matches the key f"{TYPE} - {name}": the same key, or
\* its name occurs in the lower-cased key text, or else its type does (no
\* word of the catalog is part of another, so a word occurs in the key
\* text when it is one of the key's two words)
key_match(error, error_key) ==
    LET error_type == Upper(Get(error, "type", ""))
        name == Get(error, "name", "")
        words == {LowerCase(error_key[1]), LowerCase(error_key[2])}
    IN \/ <<error_type, name>> = error_key
       \/ name # "" /\ LowerCase(name) \in words
       \/ error_type # "" /\ LowerCase(error_type) \in words

\* missing_instructions: for each missing key the first requested entry
\* that matches it, nothing for a key no entry matches
RECURSIVE create_regeneration_prompt(_, _)
create_regeneration_prompt(missing_keys, requested_errors) ==
    IF missing_keys = <<>> THEN <<>>
    ELSE LET matches == {i \in DOMAIN requested_errors :
                            key_match(requested_errors[i], Head(missing_keys))}
             first == CHOOSE i \in matches : \A j \in matches : i <= j
         IN (IF matches = {} THEN <<>> ELSE <<requested_errors[first]>>)
            \o create_regeneration_prompt(Tail(missing_keys), requested_errors)

\* the regeneration prompt, by the parts that are built from the state
generate_improved_prompt(code, requested_errors, evaluation_result) ==
    [code |-> code,
     missing_instructions |->
         create_regeneration_prompt(
             [i \in DOMAIN evaluation_result.missing_errors |->
                 FoundKey(evaluation_result.missing_errors[i])],
             requested_errors),
     found_errors |-> [i \in DOMAIN evaluation_result.found_errors |->
                          FoundKey(evaluation_result.found_errors[i])],
     missing_errors |-> [i \in DOMAIN evaluation_result.missing_errors |->
                          FoundKey(evaluation_result.missing_errors[i])],
     requested_errors |-> requested_errors]

----------------------------------------------------------------------------
(* core/student_response_evaluator.py *)

\* a JSON object without keys
NoData == <<>>

\* what the review model does: not configured ("unavailable"), the call
\* raises, the response is empty, the text holds no JSON object
\* ("unparseable") or a JSON object is parsed; data holds the keys of the
\* parsed object, or the keys the field-by-field patterns find in the text
Scoring(kind, data) == [kind |-> kind, data |-> data]

ReviewOutcomes ==
    {Scoring(k, NoData) : k \in {"unavailable", "raise", "empty"}}
    \cup {Scoring("unparseable", d) : d \in {NoData, [review_sufficient |-> TRUE]}}
    \cup {Scoring("parsed", [review_sufficient |-> b]) : b \in BOOLEAN}

min_identified_percentage == 60

\* a percentage kept as an exact fraction
Percentage(numerator, denominator) == [num |-> numerator, den |-> denominator]

\* strictly above the threshold
Above(percentage, threshold) == percentage.num > threshold * percentage.den

\* identified_percentage >= self.min_identified_percentage; for the integer
\* counts of an answer the double (identified_count / total_problems) * 100
\* compares with 60.0 as the exact fraction does
AtLeast(percentage, threshold) == percentage.num >= threshold * percentage.den

_fallback_evaluation(known_problems) ==
    [identified_problems |-> <<>>,
     missed_problems |-> known_problems,
     identified_percentage |-> Percentage(0, 1),
     identified_count |-> 0,
     total_problems |-> Len(known_problems),
     review_sufficient |-> FALSE]

ErrorData == [error |-> "Empty response from LLM"]

\* json.loads on the first candidate that parses, else the fields picked
\* one by one, each with its default
_extract_json_from_text(outcome) ==
    IF outcome.kind = "empty" THEN ErrorData
    ELSE IF outcome.kind = "parsed" THEN outcome.data
    ELSE [identified_problems |-> Get(outcome.data, "identified_problems", <<>>),
          missed_problems |-> Get(outcome.data, "missed_problems", <<>>),
          review_sufficient |-> Get(outcome.data, "review_sufficient", FALSE)]

_process_enhanced_analysis(analysis_data, known_problems) ==
    IF analysis_data = NoData THEN _fallback_evaluation(known_problems)
    ELSE LET identified_count == Get(analysis_data, "identified_count", 0)
             total_problems == Get(analysis_data, "total_problems", Len(known_problems))
             identified_percentage ==
                 IF total_problems > 0
                 THEN Percentage(identified_count * 100, total_problems)
                 ELSE Percentage(100, 1)
             review_sufficient ==
                 IF "review_sufficient" \in DOMAIN analysis_data
                 THEN analysis_data.review_sufficient
                 ELSE AtLeast(identified_percentage, min_identified_percentage)
         IN [identified_problems |-> Get(analysis_data, "identified_problems", <<>>),
             missed_problems |-> Get(analysis_data, "missed_problems", <<>>),
             identified_percentage |-> identified_percentage,
             identified_count |-> identified_count,
             total_problems |-> total_problems,
             review_sufficient |-> review_sufficient]

evaluate_review(outcome, known_problems) ==
    IF outcome.kind \in {"unavailable", "raise", "empty"}
    THEN _fallback_evaluation(known_problems)
    ELSE LET analysis_data == _extract_json_from_text(outcome)
         IN IF analysis_data = NoData \/ "error" \in DOMAIN analysis_data
            THEN _fallback_evaluation(known_problems)
            ELSE _process_enhanced_analysis(analysis_data, known_problems)

\* the guidance text (from the model, or the templated fallback)
GuidanceTexts == {"guidance"}

----------------------------------------------------------------------------
(* workflow/node.py, workflow/manager.py *)

NoCategoriesError == "No error categories selected"
GenerateError == "Error generating code"
RegenerateError == "Error regenerating code"
NoSnippetEvalError == "No code snippet available for evaluation"
NoReviewError == "No review submitted to analyze"
NoSnippetError == "No code snippet available"

\* detailed_problems: one description per requested error, in order
enrich_error_information(code, errors) ==
    [i \in DOMAIN errors |-> Get(errors[i], "name", "")]

\* CodeSnippet(code=..., clean_code=..., raw_errors={"build": [...], "checkstyle": [...]})
CodeSnippet(code, clean_code, errors) ==
    [code |-> code,
     clean_code |-> clean_code,
     known_problems |-> enrich_error_information(code, errors),
     raw_errors |-> [build |-> FilterSeq(errors, {e \in Range(errors) : Get(e, "type", "") = "build"}),
                     checkstyle |-> FilterSeq(errors, {e \in Range(errors) : Get(e, "type", "") = "checkstyle"})]]

_extract_requested_errors(s) ==
    IF IsNone(s.code_snippet) THEN <<>>
    ELSE Val(s.code_snippet).raw_errors.build \o Val(s.code_snippet).raw_errors.checkstyle

(* core/code_generator.py, utils/code_utils.py *)

\* a response of the generation model: nothing, or a text with the contents
\* of its annotated and clean code blocks ("" where it has no such block)
Response(kind, annotated, clean) == [kind |-> kind, annotated |-> annotated, clean |-> clean]

\* the whitespace string _generate_with_llm returns from its except branch
BlankResponse == Response("text", NoCode, NoCode)

\* what the generation model does with a prompt
GenerationOracle(has_llm) ==
    IF has_llm
    THEN {Response("raise", NoCode, NoCode), Response("empty", NoCode, NoCode)}
         \cup {Response("text", c, NoCode) : c \in Codes \cup {NoCode}}
    ELSE {Response("unavailable", NoCode, NoCode)}

\* llm.invoke inside try/except: every exception, the missing model
\* included, gives the blank response
_generate_with_llm(oracle) ==
    IF oracle.kind \in {"unavailable", "raise"} THEN BlankResponse ELSE oracle

\* "// ERROR:" in line
HasErrorComment(line) == line.comment = ErrorComment

\* "\n".join(line for line in annotated_code.splitlines() if "// ERROR:" not in line)
StripErrorLines(annotated_code) ==
    FilterSeq(annotated_code,
              {line \in Range(annotated_code) : ~HasErrorComment(line)})

extract_both_code_versions(response) ==
    IF response.kind = "empty" THEN <<NoCode, NoCode>>
    ELSE LET annotated_code == response.annotated
             clean_code == IF annotated_code # NoCode /\ response.clean = NoCode
                           THEN StripErrorLines(annotated_code)
                           ELSE response.clean
         IN <<annotated_code, clean_code>>

\* what a generation call meets: the errors drawn from the catalog, whether
\* a collaborator raises inside the node, and the annotated code extracted
\* from the model's response
GenerationOutcomes(sel, has_llm) ==
    [selected_errors : CatalogDraws(sel),
     raises : BOOLEAN,
     oracle : GenerationOracle(has_llm)]

generate_code_node(s, gen) ==
    LET s1 == [s EXCEPT !.evaluation_attempts = 0,
                        !.evaluation_result = None,
                        !.code_generation_feedback = None]
        sel == s.selected_error_categories
    IN IF sel.build = {} /\ sel.checkstyle = {}
       THEN [s1 EXCEPT !.error = NoCategoriesError]
       ELSE IF gen.raises
       THEN [s1 EXCEPT !.error = GenerateError]
       ELSE LET response == _generate_with_llm(gen.oracle)
                annotated_code == extract_both_code_versions(response)[1]
                clean_code == extract_both_code_versions(response)[2]
            IN [s1 EXCEPT !.code_snippet = Some(CodeSnippet(annotated_code, clean_code, gen.selected_errors)),
                       !.current_step = "review"]

\* regeneration done as a standard generation whether or not a model is there
regenerate_by_generating(s, has_llm, gen) == generate_code_node(s, gen)

regenerate_code_node(s, has_llm, gen) ==
    IF has_llm
    THEN IF gen.oracle.kind = "raise" \/ gen.raises
         THEN [s EXCEPT !.error = RegenerateError]
         ELSE LET annotated_code == extract_both_code_versions(gen.oracle)[1]
                  clean_code == extract_both_code_versions(gen.oracle)[2]
              IN [s EXCEPT !.code_snippet = Some(CodeSnippet(annotated_code, clean_code, _extract_requested_errors(s))),
                        !.current_step = "evaluate"]
    ELSE generate_code_node(s, gen)

IncrementAttempts(n) == n + 1

\* the call without artifact counted as an attempt that sends back to regeneration
evaluation_without_snippet_counted(s) ==
    [s EXCEPT !.error = NoSnippetEvalError,
              !.evaluation_attempts = @ + 1,
              !.current_step = "regenerate"]

\* if not state.code_snippet: the error text is set and the state returned
evaluation_without_snippet(s) == [s EXCEPT !.error = NoSnippetEvalError]

BudgetReached(s) == s.evaluation_attempts >= s.max_evaluation_attempts

\* the attempt counter raised for incomplete evaluations only
evaluate_code_node_counting_failures(s, has_llm, answer) ==
    IF IsNone(s.code_snippet)
    THEN evaluation_without_snippet(s)
    ELSE LET code == Val(s.code_snippet).code
             requested_errors == _extract_requested_errors(s)
             evaluation_result == evaluate_code(has_llm, code, requested_errors, answer)
             s1 == [s EXCEPT !.evaluation_result = Some(evaluation_result)]
         IN IF Get(evaluation_result, "valid", FALSE)
            THEN [s1 EXCEPT !.current_step = "review"]
            ELSE LET s2 == [s1 EXCEPT !.evaluation_attempts = IncrementAttempts(@),
                                      !.code_generation_feedback =
                               Some(generate_improved_prompt(code, requested_errors, evaluation_result))]
                 IN IF BudgetReached(s2)
                    THEN [s2 EXCEPT !.current_step = "review"]
                    ELSE [s2 EXCEPT !.current_step = "regenerate"]

evaluate_code_node(s, has_llm, answer) ==
    IF IsNone(s.code_snippet)
    THEN evaluation_without_snippet(s)
    ELSE LET code == Val(s.code_snippet).code
             requested_errors == _extract_requested_errors(s)
             evaluation_result == evaluate_code(has_llm, code, requested_errors, answer)
             s1 == [s EXCEPT !.evaluation_result = Some(evaluation_result),
                             !.evaluation_attempts = IncrementAttempts(@)]
         IN IF Get(evaluation_result, "valid", FALSE)
            THEN [s1 EXCEPT !.current_step = "review"]
            ELSE LET s2 == [s1 EXCEPT !.code_generation_feedback =
                               Some(generate_improved_prompt(code, requested_errors, evaluation_result))]
                 IN IF BudgetReached(s2)
                    THEN [s2 EXCEPT !.current_step = "review"]
                    ELSE [s2 EXCEPT !.current_step = "regenerate"]

review_code_node(s) == [s EXCEPT !.current_step = "review"]

\* guidance for every insufficient review, the last permitted one included
guidance_always_needed(s, review_sufficient) == ~review_sufficient

\* if not review_sufficient and state.current_iteration < state.max_iterations
guidance_needed(s, review_sufficient) ==
    ~review_sufficient /\ s.current_iteration < s.max_iterations

\* an analysis that does not count the iteration when the review model failed
analyze_review_node_skipping_failures(s, outcome, guidance) ==
    IF s.review_history = <<>>
    THEN [s EXCEPT !.error = NoReviewError]
    ELSE IF IsNone(s.code_snippet)
    THEN [s EXCEPT !.error = NoSnippetError]
    ELSE LET last == Len(s.review_history)
             known_problems == Val(s.code_snippet).known_problems
             analysis == evaluate_review(outcome, known_problems)
             review_sufficient == Get(analysis, "review_sufficient", FALSE)
             s1 == [s EXCEPT !.review_history[last].analysis = Some(analysis),
                             !.review_sufficient = review_sufficient]
             s2 == IF guidance_needed(s, review_sufficient)
                   THEN [s1 EXCEPT !.review_history[last].targeted_guidance = Some(guidance)]
                   ELSE s1
         IN [s2 EXCEPT !.current_iteration =
                           IF analysis = _fallback_evaluation(known_problems) THEN @ ELSE @ + 1,
                       !.current_step = "analyze"]

analyze_review_node(s, outcome, guidance) ==
    IF s.review_history = <<>>
    THEN [s EXCEPT !.error = NoReviewError]
    ELSE IF IsNone(s.code_snippet)
    THEN [s EXCEPT !.error = NoSnippetError]
    ELSE LET last == Len(s.review_history)
             known_problems == Val(s.code_snippet).known_problems
             analysis == evaluate_review(outcome, known_problems)
             review_sufficient == Get(analysis, "review_sufficient", FALSE)
             s1 == [s EXCEPT !.review_history[last].analysis = Some(analysis),
                             !.review_sufficient = review_sufficient]
             s2 == IF guidance_needed(s, review_sufficient)
                   THEN [s1 EXCEPT !.review_history[last].targeted_guidance = Some(guidance)]
                   ELSE s1
         IN [s2 EXCEPT !.current_iteration = @ + 1,
                       !.current_step = "analyze"]

ReviewAttempt(iteration_number) ==
    [iteration_number |-> iteration_number,
     analysis |-> None,
     targeted_guidance |-> None]

submit_review(s, outcome, guidance) ==
    analyze_review_node(
        [s EXCEPT !.review_history = Append(@, ReviewAttempt(s.current_iteration))],
        outcome, guidance)

----------------------------------------------------------------------------
(* workflow/conditions.py *)

\* the attempt budget compared with <= instead of <
should_regenerate_or_review_one_more(s) ==
    IF s.current_step = "regenerate" THEN "regenerate_code"
    ELSE IF ~IsNone(s.evaluation_result) /\ Get(Val(s.evaluation_result), "valid", FALSE)
    THEN "review_code"
    ELSE LET has_missing_errors ==
                 ~IsNone(s.evaluation_result)
                 /\ Len(Get(Val(s.evaluation_result), "missing_errors", <<>>)) > 0
             has_extra_errors ==
                 ~IsNone(s.evaluation_result)
                 /\ Len(Get(Val(s.evaluation_result), "extra_errors", <<>>)) > 0
             needs_regeneration == has_missing_errors \/ has_extra_errors
         IN IF needs_regeneration /\ s.evaluation_attempts <= s.max_evaluation_attempts
            THEN "regenerate_code"
            ELSE "review_code"

\* the decision taken from the evaluation result alone, current_step ignored
should_regenerate_or_review_by_result(s) ==
    IF ~IsNone(s.evaluation_result) /\ Get(Val(s.evaluation_result), "valid", FALSE)
    THEN "review_code"
    ELSE IF /\ ~IsNone(s.evaluation_result)
            /\ Len(Get(Val(s.evaluation_result), "missing_errors", <<>>)) > 0
            /\ s.evaluation_attempts < s.max_evaluation_attempts
    THEN "regenerate_code"
    ELSE "review_code"

should_regenerate_or_review(s) ==
    IF s.current_step = "regenerate" THEN "regenerate_code"
    ELSE IF ~IsNone(s.evaluation_result) /\ Get(Val(s.evaluation_result), "valid", FALSE)
    THEN "review_code"
    ELSE LET has_missing_errors ==
                 ~IsNone(s.evaluation_result)
                 /\ Len(Get(Val(s.evaluation_result), "missing_errors", <<>>)) > 0
             has_extra_errors ==
                 ~IsNone(s.evaluation_result)
                 /\ Len(Get(Val(s.evaluation_result), "extra_errors", <<>>)) > 0
             needs_regeneration == has_missing_errors \/ has_extra_errors
         IN IF needs_regeneration /\ s.evaluation_attempts < s.max_evaluation_attempts
            THEN "regenerate_code"
            ELSE "review_code"

\* the iteration budget compared with >= instead of >
should_continue_review_early(s) ==
    IF s.current_iteration >= s.max_iterations THEN "generate_summary"
    ELSE IF s.review_sufficient THEN "generate_summary"
    ELSE "continue_review"

should_continue_review(s) ==
    IF s.current_iteration > s.max_iterations THEN "generate_summary"
    ELSE IF s.review_sufficient THEN "generate_summary"
    ELSE "continue_review"

\* a router that sends every evaluation on to regeneration
graph_always_regenerate(s) == "regenerate_code"

(* langgraph_workflow.py *)

graph_should_regenerate_or_review(s) ==
    IF s.current_step = "regenerate" THEN "regenerate_code"
    ELSE IF ~IsNone(s.evaluation_result) /\ Get(Val(s.evaluation_result), "valid", FALSE)
    THEN "review_code"
    ELSE IF s.evaluation_attempts >= s.max_evaluation_attempts THEN "review_code"
    ELSE IF ~IsNone(s.evaluation_result) THEN "regenerate_code"
    ELSE "review_code"

----------------------------------------------------------------------------
(* Entry points as calls on the session's state *)

NoError == ""

\* WorkflowState(current_step="generate", evaluation_attempts=0, ...)
WorkflowState(max_evaluation_attempts, max_iterations, selection) ==
    [selected_error_categories |-> selection,
     current_step |-> "generate",
     code_snippet |-> None,
     evaluation_attempts |-> 0,
     max_evaluation_attempts |-> max_evaluation_attempts,
     evaluation_result |-> None,
     code_generation_feedback |-> None,
     review_history |-> <<>>,
     current_iteration |-> 1,
     max_iterations |-> max_iterations,
     review_sufficient |-> FALSE,
     error |-> NoError]

EmptySelection == [build |-> {}, checkstyle |-> {}]
FullSelection == [build |-> {"NullHandling"}, checkstyle |-> {"Naming"}]
BuildSelection == [build |-> {"NullHandling"}, checkstyle |-> {}]

Call(op, failed) == [op |-> op, failed |-> failed, oracle |-> "none"]

\* a generate_code_node call, with what the generation model did
GenerationCall(failed, oracle) ==
    [Call("generate_code_node", failed) EXCEPT !.oracle = oracle.kind]

\* the call set the error text
Failed(cleared, after) == cleared.error = NoError /\ after.error # NoError

Cleared(s) == [s EXCEPT !.error = NoError]

\* the UI stores the selection in the state and calls generate_code_node
GenerateCall(selections) ==
    \E sel \in selections :
    \E gen \in GenerationOutcomes(sel, llm) :
        LET s0 == [state EXCEPT !.selected_error_categories = sel]
        IN /\ state' = generate_code_node(s0, gen)
           /\ last_call' = GenerationCall(
                                Failed(Cleared(s0), generate_code_node(Cleared(s0), gen)),
                                gen.oracle)

RegenerateCall ==
    \E gen \in GenerationOutcomes(state.selected_error_categories, llm) :
        /\ state' = regenerate_code_node(state, llm, gen)
        /\ last_call' = Call("regenerate_code_node",
                             Failed(Cleared(state), regenerate_code_node(Cleared(state), llm, gen)))

EvaluateCall(answers, log) ==
    \E answer \in answers :
        /\ state' = evaluate_code_node(state, llm, answer)
        /\ last_call' = Call("evaluate_code_node",
                             Failed(Cleared(state), evaluate_code_node(Cleared(state), llm, answer)))
        /\ oracle_answer' = IF log /\ llm /\ ~IsNone(state.code_snippet) THEN answer
                            ELSE IF log THEN NoAnswer
                            ELSE oracle_answer
        /\ repeated_answer' = IF log
                              THEN /\ last_call = Call("evaluate_code_node", FALSE)
                                   /\ last_call' = last_call
                                   /\ oracle_answer' = oracle_answer
                              ELSE repeated_answer

SubmitCall ==
    \E outcome \in ReviewOutcomes, guidance \in GuidanceTexts :
        /\ state' = submit_review(state, outcome, guidance)
        /\ last_call' = Call("submit_review",
                             Failed(Cleared(state), submit_review(Cleared(state), outcome, guidance)))
        /\ submitted_with_code' =
               IF IsNone(state.code_snippet) THEN submitted_with_code
               ELSE submitted_with_code + 1

NoAdapterCall == [adapter |-> "none"]

StartWith(states, models) ==
    /\ state \in states
    /\ llm \in models
    /\ last_call = Call("none", FALSE)
    /\ fresh_run = FALSE
    /\ evals_in_run = 0
    /\ submitted_with_code = 0
    /\ oracle_answer = NoAnswer
    /\ repeated_answer = FALSE
    /\ node = "idle"
    /\ graph_evals = 0
    /\ adapter_call = NoAdapterCall
    /\ empty_handled = {}
    /\ sessions = <<>>
    /\ alone = <<>>
    /\ regens_in_run = 0

----------------------------------------------------------------------------
(* The mixed session: the four entry points called in any order *)

SessionSelections == {EmptySelection, FullSelection}

SessionAnswers ==
    {a \in OracleAnswers :
        \/ a.kind = "raise"
        \/ a.kind = "parsed" /\ Len(a.found_errors) <= 1}

Init ==
    StartWith({WorkflowState(m, n, EmptySelection) :
                  m \in 1..SessionEvalBudget, n \in 1..SessionIterBudget},
              BOOLEAN)

GenerateCode ==
    /\ GenerateCall({EmptySelection, BuildSelection})
    /\ UNCHANGED <<regens_in_run, sessions, alone, adapter_call, empty_handled, llm, fresh_run, evals_in_run, submitted_with_code, oracle_answer, repeated_answer, node, graph_evals>>

RegenerateCode ==
    /\ RegenerateCall
    /\ UNCHANGED <<regens_in_run, sessions, alone, adapter_call, empty_handled, llm, fresh_run, evals_in_run, submitted_with_code, oracle_answer, repeated_answer, node, graph_evals>>

EvaluateCode ==
    /\ state.evaluation_attempts < state.max_evaluation_attempts + ExtraEvals
    /\ EvaluateCall(SessionAnswers, FALSE)
    /\ UNCHANGED <<regens_in_run, sessions, alone, adapter_call, empty_handled, llm, fresh_run, evals_in_run, submitted_with_code, node, graph_evals>>

SubmitReview ==
    /\ Len(state.review_history) < SessionReviews
    /\ SubmitCall
    /\ UNCHANGED <<regens_in_run, sessions, alone, adapter_call, empty_handled, llm, fresh_run, evals_in_run, oracle_answer, repeated_answer, node, graph_evals>>

Next == GenerateCode \/ RegenerateCode \/ EvaluateCode \/ SubmitReview

Spec == Init /\ [][Next]_vars

----------------------------------------------------------------------------
(* The mixed session with calls that are abandoned while the model's answer
   is pending: the state object stays as the node left it by then *)

\* the state at the moment the entry point calls its model; None when the
\* entry point returns without calling one
state_at_oracle_call(op, s, has_llm) ==
    LET reset == [s EXCEPT !.evaluation_attempts = 0,
                           !.evaluation_result = None,
                           !.code_generation_feedback = None]
        generating == IF s.selected_error_categories = EmptySelection \/ ~has_llm
                      THEN None ELSE Some(reset)
        submitted == [s EXCEPT !.review_history = Append(@, ReviewAttempt(s.current_iteration))]
    IN CASE op = "generate_code_node" -> generating
         [] op = "regenerate_code_node" -> IF has_llm THEN Some(s) ELSE generating
         [] op = "evaluate_code_node" ->
                IF IsNone(s.code_snippet) \/ ~has_llm THEN None ELSE Some(s)
         [] op = "submit_review" -> IF IsNone(s.code_snippet) THEN None ELSE Some(submitted)

AbandonCall ==
    /\ Len(state.review_history) < SessionReviews
    /\ \E op \in {"generate_code_node", "regenerate_code_node", "evaluate_code_node",
                   "submit_review"} :
          /\ ~IsNone(state_at_oracle_call(op, state, llm))
          /\ state' = Val(state_at_oracle_call(op, state, llm))
          /\ last_call' = [Call(op, FALSE) EXCEPT !.oracle = "abandoned"]
    /\ UNCHANGED <<regens_in_run, sessions, alone, adapter_call, empty_handled, llm, fresh_run, evals_in_run, submitted_with_code, oracle_answer, repeated_answer, node, graph_evals>>

AbandonNext == GenerateCode \/ RegenerateCode \/ EvaluateCode \/ SubmitReview \/ AbandonCall

AbandonSpec == Init /\ [][AbandonNext]_vars

----------------------------------------------------------------------------
(* Two sessions driven through the same WorkflowNodes object *)

\* a node keeps the state on the nodes object, which the sessions share
store_on_nodes(instances, i, s) == [j \in DOMAIN instances |-> s]

\* a node works on the instance it was handed and returns it
store(instances, i, s) == [instances EXCEPT ![i] = s]

\* one entry point applied to a state, with the answer its model gave
node_call(op, s, has_llm, answer) ==
    CASE op = "generate_code_node" ->
             generate_code_node([s EXCEPT !.selected_error_categories = BuildSelection], answer)
      [] op = "regenerate_code_node" -> regenerate_code_node(s, has_llm, answer)
      [] op = "evaluate_code_node" -> evaluate_code_node(s, has_llm, answer)
      [] op = "submit_review" -> submit_review(s, answer, "guidance")

\* the answers the model of an entry point can give
ModelAnswers(op, has_llm) ==
    CASE op \in {"generate_code_node", "regenerate_code_node"} ->
             {gen \in GenerationOutcomes(BuildSelection, has_llm) :
                 /\ gen.selected_errors # <<>>
                 /\ ~gen.raises
                 /\ gen.oracle.kind = "text"}
      [] op = "evaluate_code_node" ->
             {a \in SessionAnswers : a.kind = "parsed" => (a.valid /\ a.found_errors = <<>>)}
      [] op = "submit_review" ->
             {outcome \in ReviewOutcomes : outcome.kind = "parsed"}

PairInit ==
    /\ state = WorkflowState(PairBudget, PairBudget, EmptySelection)
    /\ llm = TRUE
    /\ last_call = Call("none", FALSE)
    /\ fresh_run = FALSE
    /\ evals_in_run = 0
    /\ submitted_with_code = 0
    /\ oracle_answer = NoAnswer
    /\ repeated_answer = FALSE
    /\ node = "idle"
    /\ graph_evals = 0
    /\ adapter_call = NoAdapterCall
    /\ empty_handled = {}
    /\ sessions = <<state, state>>
    /\ alone = sessions
    /\ regens_in_run = 0

\* one of the two users triggers an entry point on their own state
SessionCall ==
    \E i \in DOMAIN sessions :
    \E op \in {"generate_code_node", "regenerate_code_node", "evaluate_code_node",
                "submit_review"} :
    \E answer \in ModelAnswers(op, llm) :
        /\ op = "evaluate_code_node" =>
               sessions[i].evaluation_attempts < sessions[i].max_evaluation_attempts
        /\ op = "submit_review" => Len(sessions[i].review_history) < PairBudget
        /\ sessions' = store(sessions, i, node_call(op, sessions[i], llm, answer))
        /\ alone' = [alone EXCEPT ![i] = node_call(op, @, llm, answer)]
        /\ UNCHANGED <<regens_in_run, state, llm, last_call, fresh_run, evals_in_run, submitted_with_code, oracle_answer, repeated_answer, node, graph_evals, adapter_call, empty_handled>>

PairNext == SessionCall

PairSpec == PairInit /\ [][PairNext]_vars

----------------------------------------------------------------------------
(* The generation run: generate, then evaluate / regenerate calls *)

DefaultMaxIterations == 3

RunInit ==
    StartWith({WorkflowState(m, DefaultMaxIterations, EmptySelection) : m \in 1..MaxEvalBudget},
              BOOLEAN)

RunGenerate ==
    /\ GenerateCall(SessionSelections)
    /\ fresh_run' = ~last_call'.failed
    /\ evals_in_run' = 0
    /\ UNCHANGED <<regens_in_run, sessions, alone, adapter_call, empty_handled, llm, submitted_with_code, oracle_answer, repeated_answer, node, graph_evals>>

\* the drivers call regenerate_code_node while current_step is "regenerate"
RunRegenerate ==
    /\ state.current_step = "regenerate"
    /\ RegenerateCall
    /\ UNCHANGED <<regens_in_run, sessions, alone, adapter_call, empty_handled, llm, fresh_run, evals_in_run, submitted_with_code, oracle_answer, repeated_answer, node, graph_evals>>

RunEvaluate ==
    /\ state.evaluation_attempts < state.max_evaluation_attempts + ExtraEvals
    /\ evals_in_run < state.max_evaluation_attempts + ExtraEvals
    /\ EvaluateCall(SessionAnswers, FALSE)
    /\ LET incomplete == /\ ~last_call'.failed
                         /\ ~Val(state'.evaluation_result).valid
       IN /\ fresh_run' = (fresh_run /\ incomplete)
          /\ evals_in_run' = IF fresh_run /\ incomplete THEN evals_in_run + 1 ELSE 0
    /\ UNCHANGED <<regens_in_run, sessions, alone, adapter_call, empty_handled, llm, submitted_with_code, node, graph_evals>>

RunNext == RunGenerate \/ RunRegenerate \/ RunEvaluate

RunSpec == RunInit /\ [][RunNext]_vars

----------------------------------------------------------------------------
(* ui/generate_tab.py: generate_code_problem, statement by statement; node
   is the call the driver makes next, "idle" before a run and after a run
   that reported an error, "done" after a run that stored its state *)

DriverInit ==
    StartWith({WorkflowState(m, DefaultMaxIterations, EmptySelection) : m \in 1..MaxEvalBudget},
              BOOLEAN)

\* the selection is checked, stored in the state and generate_code_node
\* called; a state with an error text ends the run with a report
GenerateProblem ==
    /\ node \in {"idle", "done"}
    /\ GenerateCall({BuildSelection})
    /\ node' = IF state'.error # NoError THEN "idle" ELSE "evaluate"
    /\ evals_in_run' = 0
    /\ regens_in_run' = 0
    /\ UNCHANGED <<sessions, alone, adapter_call, empty_handled, llm, fresh_run, submitted_with_code, oracle_answer, repeated_answer, graph_evals>>

\* the first evaluation; the regeneration cycle is entered when the result
\* misses defects and current_step is "regenerate"
FirstEvaluation ==
    /\ node = "evaluate"
    /\ EvaluateCall(SessionAnswers, FALSE)
    /\ evals_in_run' = evals_in_run + 1
    /\ LET missing == Len(Val(state'.evaluation_result).missing_errors)
           attempt == 1
       IN node' = IF /\ missing > 0 /\ state'.current_step = "regenerate"
                     /\ attempt < state'.max_evaluation_attempts
                  THEN "regenerate" ELSE "done"
    /\ UNCHANGED <<regens_in_run, sessions, alone, adapter_call, empty_handled, llm, fresh_run, submitted_with_code, graph_evals>>

RegenerationStep ==
    /\ node = "regenerate"
    /\ RegenerateCall
    /\ regens_in_run' = regens_in_run + 1
    /\ node' = "reevaluate"
    /\ UNCHANGED <<sessions, alone, adapter_call, empty_handled, llm, fresh_run, evals_in_run, submitted_with_code, oracle_answer, repeated_answer, graph_evals>>

\* the evaluation inside the cycle, attempt += 1 and the loop test
Reevaluation ==
    /\ node = "reevaluate"
    /\ EvaluateCall(SessionAnswers, FALSE)
    /\ evals_in_run' = evals_in_run + 1
    /\ LET attempt == regens_in_run + 1
       IN node' = IF /\ state'.current_step = "regenerate"
                     /\ attempt < state'.max_evaluation_attempts
                  THEN "regenerate" ELSE "done"
    /\ UNCHANGED <<regens_in_run, sessions, alone, adapter_call, empty_handled, llm, fresh_run, submitted_with_code, graph_evals>>

DriverNext == GenerateProblem \/ FirstEvaluation \/ RegenerationStep \/ Reevaluation

DriverSpec == DriverInit /\ [][DriverNext]_vars

----------------------------------------------------------------------------
(* The graph as wired by _build_graph, up to the review_code node *)

GraphInit ==
    /\ state \in {WorkflowState(m, DefaultMaxIterations, sel) :
                     m \in 1..MaxEvalBudget, sel \in SessionSelections}
    /\ llm \in BOOLEAN
    /\ last_call = Call("none", FALSE)
    /\ fresh_run = FALSE
    /\ evals_in_run = 0
    /\ submitted_with_code = 0
    /\ oracle_answer = NoAnswer
    /\ repeated_answer = FALSE
    /\ node = "generate_code"
    /\ graph_evals = 0
    /\ adapter_call = NoAdapterCall
    /\ empty_handled = {}
    /\ sessions = <<>>
    /\ alone = <<>>
    /\ regens_in_run = 0

GraphGenerate ==
    /\ node = "generate_code"
    /\ GenerateCall({state.selected_error_categories})
    /\ node' = "evaluate_code"
    /\ UNCHANGED <<regens_in_run, sessions, alone, adapter_call, empty_handled, llm, fresh_run, evals_in_run, submitted_with_code, oracle_answer, repeated_answer, graph_evals>>

GraphEvaluate ==
    /\ node = "evaluate_code"
    /\ graph_evals < state.max_evaluation_attempts + ExtraEvals
    /\ EvaluateCall(SessionAnswers, FALSE)
    /\ graph_evals' = graph_evals + 1
    /\ node' = graph_should_regenerate_or_review(state')
    /\ UNCHANGED <<regens_in_run, sessions, alone, adapter_call, empty_handled, llm, fresh_run, evals_in_run, submitted_with_code>>

GraphRegenerate ==
    /\ node = "regenerate_code"
    /\ RegenerateCall
    /\ node' = "evaluate_code"
    /\ UNCHANGED <<regens_in_run, sessions, alone, adapter_call, empty_handled, llm, fresh_run, evals_in_run, submitted_with_code, oracle_answer, repeated_answer, graph_evals>>

GraphReview ==
    /\ node = "review_code"
    /\ state' = review_code_node(state)
    /\ last_call' = Call("review_code_node", FALSE)
    /\ node' = "analyze_review"
    /\ UNCHANGED <<regens_in_run, sessions, alone, adapter_call, empty_handled, llm, fresh_run, evals_in_run, submitted_with_code, oracle_answer, repeated_answer, graph_evals>>

GraphNext == GraphGenerate \/ GraphEvaluate \/ GraphRegenerate \/ GraphReview

GraphSpec == GraphInit /\ [][GraphNext]_vars

----------------------------------------------------------------------------
(* The verification adapter: evaluations with the oracle's answer on record *)

EvalInit ==
    StartWith({WorkflowState(MaxEvalBudget, DefaultMaxIterations, EmptySelection)}, BOOLEAN)

EvalGenerate ==
    /\ GenerateCall(CategorySelections)
    /\ UNCHANGED <<regens_in_run, sessions, alone, adapter_call, empty_handled, llm, fresh_run, evals_in_run, submitted_with_code, oracle_answer, repeated_answer, node, graph_evals>>

EvalEvaluate ==
    /\ state.evaluation_attempts < state.max_evaluation_attempts + ExtraEvals
    /\ EvaluateCall(OracleAnswers, TRUE)
    /\ UNCHANGED <<regens_in_run, sessions, alone, adapter_call, empty_handled, llm, fresh_run, evals_in_run, submitted_with_code, node, graph_evals>>

EvalNext == EvalGenerate \/ EvalEvaluate

EvalSpec == EvalInit /\ [][EvalNext]_vars

----------------------------------------------------------------------------
(* The review loop as the review tab drives it *)

ReviewInit ==
    StartWith({WorkflowState(MaxEvalBudget, n, EmptySelection) : n \in 1..MaxIterBudget},
              {TRUE})

ReviewGenerate ==
    /\ GenerateCall({BuildSelection})
    /\ UNCHANGED <<regens_in_run, sessions, alone, adapter_call, empty_handled, llm, fresh_run, evals_in_run, submitted_with_code, oracle_answer, repeated_answer, node, graph_evals>>

(* ui/review_tab.py, ui/feedback_tab.py *)

\* on_submit_review sets active_tab to the feedback tab for this state
switches_to_feedback(s) ==
    s.current_iteration >= s.max_iterations \/ s.review_sufficient

\* render_feedback_tab shows the feedback for this state
review_completed(s) ==
    s.current_iteration > s.max_iterations \/ s.review_sufficient

\* render_review_tab offers the review input when a problem exists and
\* current_iteration <= max_iterations
ReviewSubmit ==
    /\ ~IsNone(state.code_snippet)
    /\ state.current_iteration <= state.max_iterations
    /\ Len(state.review_history) < MaxReviews
    /\ SubmitCall
    /\ UNCHANGED <<regens_in_run, sessions, alone, adapter_call, empty_handled, llm, fresh_run, evals_in_run, oracle_answer, repeated_answer, node, graph_evals>>

ReviewNext == ReviewGenerate \/ ReviewSubmit

ReviewSpec == ReviewInit /\ [][ReviewNext]_vars

----------------------------------------------------------------------------
(* WorkflowManager.submit_review called on any state, with or without a
   generated problem *)

DirectGenerate ==
    /\ GenerateCall({BuildSelection})
    /\ UNCHANGED <<regens_in_run, sessions, alone, adapter_call, empty_handled, llm, fresh_run, evals_in_run, submitted_with_code, oracle_answer, repeated_answer, node, graph_evals>>

DirectSubmit ==
    /\ Len(state.review_history) < DirectReviews
    /\ SubmitCall
    /\ UNCHANGED <<regens_in_run, sessions, alone, adapter_call, empty_handled, llm, fresh_run, evals_in_run, oracle_answer, repeated_answer, node, graph_evals>>

SubmitNext == DirectGenerate \/ DirectSubmit

SubmitSpec == ReviewInit /\ [][SubmitNext]_vars

----------------------------------------------------------------------------
(* data/json_error_repository.py *)

Max(a, b) == IF a >= b THEN a ELSE b
Min(a, b) == IF a <= b THEN a ELSE b

\* self.build_errors / self.checkstyle_errors: category -> error names;
\* a file that did not load leaves its dict empty
NoCategories == <<>>

BuildErrors ==
    [CompileTimeErrors |-> <<"MissingSemicolon", "UnknownSymbol">>,
     NullHandling |-> <<"NullPointer">>]

CheckstyleErrors == [NamingConventionChecks |-> <<"MemberName", "TypeName">>]

Catalogs ==
    {[build_errors |-> b, checkstyle_errors |-> c] :
        b \in {NoCategories, BuildErrors}, c \in {NoCategories, CheckstyleErrors}}

DefaultCategories ==
    [build |-> <<"CompileTimeErrors", "RuntimeErrors", "LogicalErrors">>,
     checkstyle |-> <<"NamingConventionChecks", "WhitespaceAndFormattingChecks">>]

\* the base count, whatever the difficulty
unadjusted_count(count, difficulty) == count

\* error_counts.get(difficulty.lower(), count)
adjusted_count(count, difficulty) ==
    CASE difficulty = "easy" -> Max(2, count - 2)
      [] difficulty = "medium" -> count
      [] difficulty = "hard" -> count + 2
      [] OTHER -> count

\* k entries drawn one by one, a position possibly more than once
Choices(population, k) == {[i \in 1..k |-> population[p[i]]] : p \in [1..k -> DOMAIN population]}

\* random.sample(population, k): k entries at distinct positions, in any order
Samples(population, k) ==
    {[i \in 1..k |-> population[p[i]]] :
        p \in {q \in [1..k -> DOMAIN population] :
                  \A i, j \in 1..k : i # j => q[i] # q[j]}}

\* the entries appended for one selected category: 1 or 2 of its errors
CategoryDraws(type, category, errors_by_category) ==
    IF category \notin DOMAIN errors_by_category THEN {<<>>}
    ELSE LET category_errors == errors_by_category[category]
         IN UNION {LET num_to_select == Min(Len(category_errors), r)
                       names == Samples(category_errors, num_to_select)
                   IN {[i \in DOMAIN n |-> [type |-> type, category |-> category, name |-> n[i]]] : n \in names}
                   : r \in 1..2}

RECURSIVE CollectErrors(_, _, _)
CollectErrors(type, categories, errors_by_category) ==
    IF categories = <<>> THEN {<<>>}
    ELSE {x \o y : x \in CategoryDraws(type, Head(categories), errors_by_category),
                   y \in CollectErrors(type, Tail(categories), errors_by_category)}

\* what a get_errors_for_llm call can do: all_errors as collected from the
\* categories and the selected_errors returned
Sampling(all_errors, selected_errors) ==
    [all_errors |-> all_errors, selected_errors |-> selected_errors]

get_errors_for_llm(catalog, selected_categories, specific_errors, count, difficulty) ==
    IF Len(specific_errors) > 0 THEN {Sampling(<<>>, specific_errors)}
    ELSE IF IsNone(selected_categories) THEN {Sampling(<<>>, <<>>)}
    ELSE LET given == Val(selected_categories)
             categories ==
                 IF Get(given, "build", <<>>) = <<>> /\ Get(given, "checkstyle", <<>>) = <<>>
                 THEN DefaultCategories
                 ELSE given
             collected ==
                 {b \o c :
                    b \in CollectErrors("build", Get(categories, "build", <<>>),
                                        catalog.build_errors),
                    c \in CollectErrors("checkstyle", Get(categories, "checkstyle", <<>>),
                                        catalog.checkstyle_errors)}
         IN UNION {IF Len(all_errors) > adjusted_count(count, difficulty)
                   THEN {Sampling(all_errors, selected) :
                           selected \in Samples(all_errors, adjusted_count(count, difficulty))}
                   ELSE {Sampling(all_errors, all_errors)}
                   : all_errors \in collected}

----------------------------------------------------------------------------
(* get_errors_for_llm called once, on inputs drawn from bounded sets *)

\* selected_categories: absent or {} (both falsy), or a dict of two lists
SelectedCategories ==
    {None}
    \cup {Some([build |-> b, checkstyle |-> c]) :
            b \in {<<>>, <<"NullHandling">>, <<"CompileTimeErrors", "NullHandling">>,
                   <<"Generics">>},
            c \in {<<>>, <<"NamingConventionChecks">>}}

SpecificErrors == {<<>>, <<NullPointerError>>}

Difficulties == {"easy", "medium", "hard"}

CatalogInit ==
    StartWith({WorkflowState(MaxEvalBudget, DefaultMaxIterations, EmptySelection)}, {TRUE})

SampleErrors ==
    /\ adapter_call = NoAdapterCall
    /\ \E catalog \in Catalogs, selected_categories \in SelectedCategories,
          specific_errors \in SpecificErrors, count \in 1..MaxBase,
          difficulty \in Difficulties :
          \E sampling \in get_errors_for_llm(catalog, selected_categories,
                                              specific_errors, count, difficulty) :
             adapter_call' = [adapter |-> "get_errors_for_llm",
                              catalog |-> catalog,
                              selected_categories |-> selected_categories,
                              specific_errors |-> specific_errors,
                              count |-> count,
                              difficulty |-> difficulty,
                              all_errors |-> sampling.all_errors,
                              result |-> sampling.selected_errors]
    /\ UNCHANGED <<regens_in_run, sessions, alone, state, llm, last_call, fresh_run, evals_in_run, submitted_with_code, oracle_answer, repeated_answer, node, graph_evals, empty_handled>>

CatalogNext == SampleErrors

CatalogSpec == CatalogInit /\ [][CatalogNext]_vars

----------------------------------------------------------------------------
(* The adapters called directly, on inputs drawn from bounded sets *)

RequestedLists == {<<>>, <<NullPointerError>>, <<NullPointerError, MemberNameError>>}

KnownProblemLists == {<<>>, <<"NullPointer">>, <<"NullPointer", "MemberName">>}

\* the JSON objects the review model can answer with: the counts, with or
\* without total_problems and review_sufficient
ParsedAnalyses ==
    [identified_count : 0..MaxCount]
    \cup [identified_count : 0..MaxCount, total_problems : 0..MaxCount]
    \cup [identified_count : 0..MaxCount, total_problems : 0..MaxCount,
          review_sufficient : BOOLEAN]

ScoringOutcomes ==
    ReviewOutcomes
    \cup {Scoring("parsed", d) : d \in ParsedAnalyses \cup {NoData, ErrorData}}

\* the answers of the verification model, when there is one
VerificationAnswers(has_llm) ==
    IF has_llm THEN OracleAnswers ELSE {Unanswered("unavailable")}

EmptyHandled(adapter, kind) ==
    IF kind = "empty" THEN empty_handled \cup {adapter} ELSE empty_handled

AdapterInit ==
    StartWith({WorkflowState(MaxEvalBudget, DefaultMaxIterations, EmptySelection)}, {TRUE})

\* the responses extract_both_code_versions is handed: those of the
\* workflow, and texts that carry a java-clean block
VersionOracle ==
    GenerationOracle(TRUE) \cup GenerationOracle(FALSE)
    \cup {Response("text", c, CleanSource) : c \in Codes \cup {NoCode}}

ExtractVersions ==
    /\ \E oracle \in VersionOracle :
          LET response == _generate_with_llm(oracle)
          IN /\ adapter_call' = [adapter |-> "extract_both_code_versions",
                                 response |-> response,
                                 result |-> extract_both_code_versions(response)]
             /\ empty_handled' = EmptyHandled("extract_both_code_versions", response.kind)
    /\ UNCHANGED <<regens_in_run, sessions, alone, state, llm, last_call, fresh_run, evals_in_run, submitted_with_code, oracle_answer, repeated_answer, node, graph_evals>>

VerifyCode ==
    /\ \E has_llm \in BOOLEAN, code \in Codes \cup {NoCode},
          requested_errors \in RequestedLists :
          \E answer \in VerificationAnswers(has_llm) :
             /\ adapter_call' = [adapter |-> "evaluate_code",
                                 code |-> code,
                                 requested_errors |-> requested_errors,
                                 answer |-> answer,
                                 result |-> evaluate_code(has_llm, code, requested_errors, answer)]
             /\ empty_handled' = EmptyHandled("evaluate_code", answer.kind)
    /\ UNCHANGED <<regens_in_run, sessions, alone, state, llm, last_call, fresh_run, evals_in_run, submitted_with_code, oracle_answer, repeated_answer, node, graph_evals>>

ScoreReview ==
    /\ \E outcome \in ScoringOutcomes, known_problems \in KnownProblemLists :
          /\ adapter_call' = [adapter |-> "evaluate_review",
                              outcome |-> outcome,
                              known_problems |-> known_problems,
                              result |-> evaluate_review(outcome, known_problems)]
          /\ empty_handled' = EmptyHandled("evaluate_review", outcome.kind)
    /\ UNCHANGED <<regens_in_run, sessions, alone, state, llm, last_call, fresh_run, evals_in_run, submitted_with_code, oracle_answer, repeated_answer, node, graph_evals>>

AdapterNext == ExtractVersions \/ VerifyCode \/ ScoreReview

AdapterSpec == AdapterInit /\ [][AdapterNext]_vars

----------------------------------------------------------------------------
(* Properties *)

Valid(s) == ~IsNone(s.evaluation_result) /\ Val(s.evaluation_result).valid

Keys(entries) == {FoundKey(e) : e \in Range(entries)}

RequestedKeys(s) == {RequestedKey(e) : e \in Range(_extract_requested_errors(s))}

\* C1: from a freshly generated artifact, with every evaluation incomplete,
\* the k-th evaluate_code_node call leaves current_step = "regenerate" for
\* k < max_evaluation_attempts and "review" (with should_regenerate_or_review
\* = "review_code") for k = max_evaluation_attempts, and regenerate_code_node
\* calls in between do not change the attempt count.
C1_BudgetEndsInReview ==
    fresh_run =>
        /\ state.evaluation_attempts = evals_in_run
        /\ last_call.op = "evaluate_code_node" =>
              /\ evals_in_run < state.max_evaluation_attempts =>
                     state.current_step = "regenerate"
              /\ evals_in_run = state.max_evaluation_attempts =>
                     /\ state.current_step = "review"
                     /\ should_regenerate_or_review(state) = "review_code"

\* C2: in every execution of the graph, review_code is reached after at most
\* max_evaluation_attempts executions of evaluate_code.
C2_LoopBounded == graph_evals <= state.max_evaluation_attempts

DecisionAsClaimed(s, decision) ==
    /\ Valid(s) => decision = "review_code"
    /\ (~Valid(s) /\ s.evaluation_attempts >= s.max_evaluation_attempts) =>
           decision = "review_code"
    /\ decision = "regenerate_code" =>
           (~Valid(s) /\ s.evaluation_attempts < s.max_evaluation_attempts)
    /\ decision \in {"review_code", "regenerate_code"}

\* C3: should_regenerate_or_review (both implementations) returns
\* "review_code" when the latest evaluation is valid, "review_code" when it is
\* not valid and the attempts have reached the budget, and "regenerate_code"
\* only when it is not valid and attempts remain.
C3_RegenerateOrReview ==
    /\ DecisionAsClaimed(state, should_regenerate_or_review(state))
    /\ DecisionAsClaimed(state, graph_should_regenerate_or_review(state))

C3_Witness ==
    /\ last_call = Call("evaluate_code_node", FALSE)
    /\ ~Valid(state)
    /\ Len(Val(state.evaluation_result).missing_errors) > 0
    /\ state.evaluation_attempts >= state.max_evaluation_attempts
    /\ should_regenerate_or_review(state) = "review_code"

\* after an evaluate_code call that parsed the oracle's answer
ParsedEvaluation ==
    /\ last_call = Call("evaluate_code_node", FALSE)
    /\ oracle_answer.kind = "parsed"

C6_ContinueOrSummarize ==
    LET decision == should_continue_review(state)
    IN /\ state.current_iteration > state.max_iterations => decision = "generate_summary"
       /\ state.review_sufficient => decision = "generate_summary"
       /\ (state.current_iteration <= state.max_iterations /\ ~state.review_sufficient)
              => decision = "continue_review"

C6_Witness ==
    /\ last_call = Call("submit_review", FALSE)
    /\ state.review_sufficient
    /\ state.current_iteration < state.max_iterations
    /\ should_continue_review(state) = "generate_summary"

\* C7: after max_iterations submit_review calls should_continue_review
\* returns "generate_summary", whatever the scoring and guidance oracles did.
C7_ReviewLoopEnds ==
    submitted_with_code >= state.max_iterations =>
        should_continue_review(state) = "generate_summary"

C7_Witness ==
    /\ last_call = Call("submit_review", FALSE)
    /\ submitted_with_code = state.max_iterations
    /\ state.max_iterations > 1
    /\ \A i \in DOMAIN state.review_history :
           /\ ~IsNone(state.review_history[i].analysis)
           /\ Val(state.review_history[i].analysis) =
                  _fallback_evaluation(Val(state.code_snippet).known_problems)
    /\ should_continue_review(state) = "generate_summary"

\* C8: once should_continue_review returns "generate_summary" it returns
\* "generate_summary" after every later operation the interface allows.
C8_SummarizeIsTerminal ==
    [][should_continue_review(state) = "generate_summary"
          => should_continue_review(state') = "generate_summary"]_vars

\* the fields a failed call must leave alone: all but the error text, the
\* current stage, and the selection the caller stored before the call
Artifacts(s) ==
    [s EXCEPT !.error = NoError,
              !.current_step = "generate",
              !.selected_error_categories = EmptySelection]

\* C9: a call that fails leaves every field other than the error text and
\* the current stage as it was.
C9_FailureKeepsArtifacts ==
    [][last_call'.failed => Artifacts(state') = Artifacts(state)]_vars

C11_AttemptsWithinBudget ==
    /\ 0 <= state.evaluation_attempts
    /\ state.evaluation_attempts <= state.max_evaluation_attempts

\* C12: after a successful generate_code_node call the current stage is
\* "evaluate", a code artifact is present and evaluation_attempts = 0.
C12_GenerateLeadsToEvaluate ==
    [][(last_call'.op = "generate_code_node" /\ ~last_call'.failed) =>
          /\ state'.current_step = "evaluate"
          /\ ~IsNone(state'.code_snippet)
          /\ state'.evaluation_attempts = 0]_vars

\* every field but the error text and the selection the caller stored
BesidesError(s) ==
    [s EXCEPT !.error = NoError, !.selected_error_categories = EmptySelection]

\* C13: generate_code_node with an empty category selection sets the error
\* text and leaves every other field, current_step included, unchanged.
C13_EmptySelectionIsNoOp ==
    [][(/\ last_call'.op = "generate_code_node"
        /\ state'.selected_error_categories = EmptySelection) =>
          /\ state'.error = NoCategoriesError
          /\ BesidesError(state') = BesidesError(state)]_vars

\* C14: a generate_code_node call whose generation model raises or is not
\* configured records a generation failure in the error field and is never
\* reported as a successful generation.
C14_OracleFailureRecorded ==
    [][(/\ last_call'.op = "generate_code_node"
        /\ last_call'.oracle \in {"raise", "unavailable"}
        /\ state'.selected_error_categories # EmptySelection) =>
          /\ last_call'.failed
          /\ state'.error = GenerateError]_vars

\* C15: once a code artifact exists, the set of requested defects
\* (raw_errors by type and name) is the same after every evaluate_code_node,
\* regenerate_code_node and submit_review call.
C15_RequestedSetStable ==
    [][(/\ last_call'.op \in {"evaluate_code_node", "regenerate_code_node", "submit_review"}
        /\ ~IsNone(state.code_snippet)) =>
          RequestedKeys(state') = RequestedKeys(state)]_vars

\* C16: handed an empty response, extract_both_code_versions returns
\* ("", ""); evaluate_code returns no found defect, every requested defect
\* as missing and valid = false; evaluate_review returns identified_count = 0,
\* every known problem in missed_problems and review_sufficient = false
C16_EmptyResponseFallbacks ==
    /\ (adapter_call.adapter = "extract_both_code_versions"
            /\ adapter_call.response.kind = "empty")
        => adapter_call.result = <<NoCode, NoCode>>
    /\ (adapter_call.adapter = "evaluate_code" /\ adapter_call.answer.kind = "empty")
        => /\ adapter_call.result.found_errors = <<>>
           /\ adapter_call.result.missing_errors = adapter_call.requested_errors
           /\ adapter_call.result.valid = FALSE
    /\ (adapter_call.adapter = "evaluate_review" /\ adapter_call.outcome.kind = "empty")
        => /\ adapter_call.result.identified_count = 0
           /\ adapter_call.result.missed_problems = adapter_call.known_problems
           /\ adapter_call.result.review_sufficient = FALSE

C16_Witness ==
    /\ empty_handled = {"extract_both_code_versions", "evaluate_code", "evaluate_review"}
    /\ adapter_call.adapter = "evaluate_code"
    /\ adapter_call.answer.kind = "empty"
    /\ Len(adapter_call.requested_errors) = 2

\* str.lower() on the defect names that occur
Lower(name) ==
    CASE name = "NullPointer" -> "nullpointer"
      [] name = "MemberName" -> "membername"
      [] OTHER -> name

\* the lower-cased defect names that occur in the lower-cased text of a
\* source: the annotated source names its NullPointer defect
LowerNamesIn(code) == IF code = AnnotatedSource THEN {"nullpointer"} ELSE {}

OccursIn(name, code) == Lower(name) \in LowerNamesIn(code)

\* the list reports the requested error, as the entry itself or by its key
Reports(entries, error) ==
    \E i \in DOMAIN entries :
        entries[i] = error \/ FoundKey(entries[i]) = RequestedKey(error)

\* C17: when the verification oracle is unavailable or its answer holds no
\* JSON object, evaluate_code reports a requested defect as found if and only
\* if its name occurs, ignoring case, in the source, and as missing otherwise
C17_TextualFallback ==
    (adapter_call.adapter = "evaluate_code"
        /\ adapter_call.answer.kind \in {"unavailable", "unparseable"})
    => \A i \in DOMAIN adapter_call.requested_errors :
          LET error == adapter_call.requested_errors[i]
              occurs == OccursIn(error.name, adapter_call.code)
          IN /\ Reports(adapter_call.result.found_errors, error) <=> occurs
             /\ Reports(adapter_call.result.missing_errors, error) <=> ~occurs

Scored ==
    /\ adapter_call.adapter = "evaluate_review"
    /\ adapter_call.outcome.kind = "parsed"
    /\ adapter_call.outcome.data # NoData
    /\ "error" \notin DOMAIN adapter_call.outcome.data

\* C19: in an analysis made from a parsed answer, review_sufficient is the
\* answer's review_sufficient field when it has one; otherwise it is true
\* exactly when identified_count * 100 >= 60 * total_problems (which
\* holds when total_problems = 0): exactly 60% suffices, less does not
C19_SufficientAtThreshold ==
    Scored =>
        LET data == adapter_call.outcome.data
            result == adapter_call.result
        IN IF "review_sufficient" \in DOMAIN data
           THEN result.review_sufficient = data.review_sufficient
           ELSE result.review_sufficient
                <=> (result.identified_count * 100
                        >= min_identified_percentage * result.total_problems)

\* 3 of 5 problems identified, no review_sufficient field: sufficient
C19_Witness ==
    /\ Scored
    /\ "review_sufficient" \notin DOMAIN adapter_call.outcome.data
    /\ adapter_call.result.identified_count = 3
    /\ adapter_call.result.total_problems = 5
    /\ adapter_call.result.review_sufficient

\* C20: when the review model fails totally (not configured, the call
\* raises, the answer is empty, or the answer holds no JSON object),
\* evaluate_review returns identified_count = 0, every known problem in
\* missed_problems and review_sufficient = false
C20_TotalFailureFallback ==
    (adapter_call.adapter = "evaluate_review"
        /\ adapter_call.outcome.kind \in {"unavailable", "raise", "empty", "unparseable"})
    => /\ adapter_call.result.identified_count = 0
       /\ Range(adapter_call.known_problems) \subseteq Range(adapter_call.result.missed_problems)
       /\ adapter_call.result.review_sufficient = FALSE

\* a get_errors_for_llm call by categories, with a given selection
SampledByCategory ==
    /\ adapter_call.adapter = "get_errors_for_llm"
    /\ adapter_call.specific_errors = <<>>
    /\ ~IsNone(adapter_call.selected_categories)

CategoriesSelected ==
    \/ Get(Val(adapter_call.selected_categories), "build", <<>>) # <<>>
    \/ Get(Val(adapter_call.selected_categories), "checkstyle", <<>>) # <<>>

\* the difficulty-adjusted count as the claim states it
TargetCount ==
    IF adapter_call.difficulty = "easy" THEN Max(2, adapter_call.count - 2)
    ELSE IF adapter_call.difficulty = "medium" THEN adapter_call.count
    ELSE adapter_call.count + 2

\* C21: for a selection with at least one category, get_errors_for_llm
\* returns min(|union|, target) defects, all of them from the union drawn
\* from the selected categories: never more than target, and exactly target
\* when the union has at least target entries
C21_SampleSize ==
    (SampledByCategory /\ CategoriesSelected)
    => /\ Len(adapter_call.result) = Min(Len(adapter_call.all_errors), TargetCount)
       /\ Range(adapter_call.result) \subseteq Range(adapter_call.all_errors)

\* a union of 5 defects sampled down to the target of 3
C21_Witness ==
    /\ SampledByCategory /\ CategoriesSelected
    /\ Len(adapter_call.all_errors) = 5
    /\ TargetCount = 3
    /\ Len(adapter_call.result) = 3

\* C22: get_errors_for_llm returns an empty list when no categories are
\* selected (selection absent or empty, or both of its lists empty) and when
\* the catalog files did not load
C22_NothingSelectedNothingReturned ==
    (adapter_call.adapter = "get_errors_for_llm" /\ adapter_call.specific_errors = <<>>
        /\ \/ IsNone(adapter_call.selected_categories)
           \/ ~CategoriesSelected
           \/ adapter_call.catalog = [build_errors |-> NoCategories,
                                      checkstyle_errors |-> NoCategories])
    => adapter_call.result = <<>>

\* a marker line: after the indentation it begins with "// ERROR:"
MarkerLine(line) == line.code = "" /\ HasErrorComment(line)

\* the annotated code without its marker lines, the other lines unchanged
\* and in the same order
WithoutMarkerLines(annotated_code) ==
    FilterSeq(annotated_code, {line \in Range(annotated_code) : ~MarkerLine(line)})

\* C23: the clean_code of every stored code artifact is its annotated code
\* with exactly the marker lines removed
C23_CleanIsAnnotatedWithoutMarkers ==
    ~IsNone(state.code_snippet)
    => Val(state.code_snippet).clean_code = WithoutMarkerLines(Val(state.code_snippet).code)

\* the iteration numbers along a review history
IterationNumbers(history) == [i \in DOMAIN history |-> history[i].iteration_number]

StrictlyIncreasingFromOne(numbers) ==
    /\ \A i \in DOMAIN numbers : numbers[i] >= 1
    /\ \A i, j \in DOMAIN numbers : i < j => numbers[i] < numbers[j]

\* C24: review_history is append-only and in iteration order: a
\* submit_review appends exactly one attempt at the end, no operation
\* removes or reorders attempts, and the iteration numbers along the history
\* are 1-based and strictly increasing
C24_HistoryAppendOnly ==
    [][LET before == IterationNumbers(state.review_history)
           after == IterationNumbers(state'.review_history)
       IN /\ Len(after) = Len(before) + (IF last_call'.op = "submit_review" THEN 1 ELSE 0)
          /\ \A i \in DOMAIN before : after[i] = before[i]
          /\ StrictlyIncreasingFromOne(after)]_vars

\* C25: an attempt of the history carries targeted guidance if and only if
\* its analysis was judged insufficient and its iteration_number is below
\* max_iterations; a sufficient attempt and the last permitted attempt
\* carry none
C25_GuidanceOnlyWhenMoreAttempts ==
    \A i \in DOMAIN state.review_history :
        LET attempt == state.review_history[i]
        IN ~IsNone(attempt.targeted_guidance)
           <=> /\ ~IsNone(attempt.analysis)
               /\ ~Get(Val(attempt.analysis), "review_sufficient", FALSE)
               /\ attempt.iteration_number < state.max_iterations

\* an insufficient first attempt with guidance, then the last permitted
\* attempt, insufficient too, without
C25_Witness ==
    /\ Len(state.review_history) = 2
    /\ state.max_iterations = 2
    /\ ~IsNone(state.review_history[1].targeted_guidance)
    /\ ~IsNone(state.review_history[2].analysis)
    /\ ~Val(state.review_history[2].analysis).review_sufficient
    /\ state.review_history[2].iteration_number = 2
    /\ IsNone(state.review_history[2].targeted_guidance)

\* C26: current_iteration starts at 1, a review analysis that completes
\* raises it by exactly 1, and no other operation (generation, evaluation,
\* regeneration, an analysis that fails) changes it
C26_IterationCountsAnalyses ==
    /\ state.current_iteration = 1
    /\ [][state'.current_iteration =
             state.current_iteration
             + (IF last_call'.op = "submit_review" /\ ~last_call'.failed THEN 1 ELSE 0)]_vars

\* a completed analysis after a generation and an evaluation
C26_Witness ==
    /\ last_call.op = "submit_review" /\ ~last_call.failed
    /\ state.current_iteration = 2
    /\ state.evaluation_attempts > 0

\* the feedback prompt in the state is the one an evaluation of the stored
\* artifact produces
FeedbackOfStoredArtifact(s) ==
    /\ ~IsNone(s.code_snippet)
    /\ ~IsNone(s.evaluation_result)
    /\ s.code_generation_feedback =
           Some(generate_improved_prompt(Val(s.code_snippet).code,
                                         _extract_requested_errors(s),
                                         Val(s.evaluation_result)))

\* C27: every regeneration that calls the generation model follows a
\* completed evaluation of the artifact stored in the state and sends the
\* feedback prompt that evaluation produced; no two regenerations occur
\* without an evaluation between them
C27_RegenerationFollowsEvaluation ==
    [][(last_call'.op = "regenerate_code_node" /\ llm)
       => /\ last_call.op = "evaluate_code_node"
          /\ ~last_call.failed
          /\ FeedbackOfStoredArtifact(state)]_vars

\* a second regeneration by the model, after the second evaluation
C27_Witness ==
    /\ last_call.op = "regenerate_code_node" /\ ~last_call.failed
    /\ llm
    /\ graph_evals = 2
    /\ state.current_step = "evaluate"

\* C28: no entry point modifies the state before its model call has
\* returned: a call abandoned while pending leaves the state as it was
\* before the transition began
C28_AbandonedCallLeavesState ==
    [][last_call'.oracle = "abandoned" => state' = state]_vars

C30_RegenerationFrame ==
    [][(last_call'.op = "regenerate_code_node" /\ ~last_call'.failed /\ llm) =>
          /\ ~IsNone(state'.code_snippet)
          /\ Val(state'.code_snippet).code \in Codes \cup {NoCode}
          /\ state'.current_step = "evaluate"
          /\ state'.evaluation_attempts = state.evaluation_attempts
          /\ state'.evaluation_result = state.evaluation_result
          /\ state'.review_history = state.review_history
          /\ state'.current_iteration = state.current_iteration
          /\ state'.review_sufficient = state.review_sufficient]_vars

C30_Witness ==
    /\ last_call.op = "regenerate_code_node"
    /\ ~last_call.failed
    /\ llm
    /\ state.evaluation_attempts = 1
    /\ ~IsNone(state.evaluation_result)
    /\ Len(state.review_history) = 1
    /\ state.current_step = "evaluate"

\* C31: evaluate_code_node on a state without code artifact sets the error
\* text and changes no other field
C31_EvaluationWithoutArtifact ==
    [][(last_call'.op = "evaluate_code_node" /\ IsNone(state.code_snippet)) =>
          /\ state'.error = NoSnippetEvalError
          /\ state' = [state EXCEPT !.error = NoSnippetEvalError]
          /\ state'.evaluation_attempts = state.evaluation_attempts
          /\ state'.evaluation_result = state.evaluation_result
          /\ state'.code_generation_feedback = state.code_generation_feedback
          /\ state'.current_step = state.current_step]_vars

C31_Witness ==
    /\ last_call.op = "evaluate_code_node"
    /\ last_call.failed
    /\ IsNone(state.code_snippet)
    /\ state.error = NoSnippetEvalError
    /\ state.selected_error_categories = BuildSelection

\* the requested entries that carry the type and name of the result's
\* missing defects, in the result's order
MissingDescribed(result, requested_errors) ==
    LET named(entry) ==
            {i \in DOMAIN requested_errors :
                \/ requested_errors[i] = entry
                \/ RequestedKey(requested_errors[i]) = FoundKey(entry)}
    IN [i \in DOMAIN result.missing_errors |->
           IF named(result.missing_errors[i]) = {} THEN None
           ELSE Some(requested_errors[CHOOSE k \in named(result.missing_errors[i]) : TRUE])]

\* C32: for every incomplete evaluation result, the default result
\* included, the regeneration prompt lists as missing exactly the result's
\* missing defects, each described by the requested entry of that type and
\* name, and as existing exactly the result's found defects
C32_PromptListsMissingAndFound ==
    (/\ last_call = Call("evaluate_code_node", FALSE)
     /\ ~IsNone(state.evaluation_result)
     /\ ~Val(state.evaluation_result).valid)
    => LET result == Val(state.evaluation_result)
           prompt == Val(state.code_generation_feedback)
       IN /\ [i \in DOMAIN prompt.missing_instructions |-> Some(prompt.missing_instructions[i])]
                = MissingDescribed(result, prompt.requested_errors)
          /\ prompt.found_errors = [i \in DOMAIN result.found_errors |->
                                       FoundKey(result.found_errors[i])]

\* the positions of all_errors that hold entries of a category
DrawnFrom(type, category) ==
    {i \in DOMAIN adapter_call.all_errors :
        /\ adapter_call.all_errors[i].type = type
        /\ adapter_call.all_errors[i].category = category}

\* between 1 and min(2, n) entries of the category, no entry twice
DrawnWithoutReplacement(type, category, category_errors) ==
    /\ Cardinality(DrawnFrom(type, category)) >= 1
    /\ Cardinality(DrawnFrom(type, category)) <= Min(2, Len(category_errors))
    /\ \A i, j \in DrawnFrom(type, category) :
           i # j => adapter_call.all_errors[i].name # adapter_call.all_errors[j].name
    /\ \A i \in DrawnFrom(type, category) :
           adapter_call.all_errors[i].name \in Range(category_errors)

\* C33: for each selected category that the catalog holds with n >= 1
\* entries, the union get_errors_for_llm builds before trimming has at least
\* 1 and at most min(2, n) entries of it, none drawn twice
C33_PerCategoryDraw ==
    (SampledByCategory /\ CategoriesSelected)
    => LET selected == Val(adapter_call.selected_categories)
       IN /\ \A i \in DOMAIN selected.build :
                (selected.build[i] \in DOMAIN adapter_call.catalog.build_errors
                    /\ Len(adapter_call.catalog.build_errors[selected.build[i]]) >= 1)
                => DrawnWithoutReplacement("build", selected.build[i],
                                           adapter_call.catalog.build_errors[selected.build[i]])
          /\ \A i \in DOMAIN selected.checkstyle :
                (selected.checkstyle[i] \in DOMAIN adapter_call.catalog.checkstyle_errors
                    /\ Len(adapter_call.catalog.checkstyle_errors[selected.checkstyle[i]]) >= 1)
                => DrawnWithoutReplacement("checkstyle", selected.checkstyle[i],
                                           adapter_call.catalog.checkstyle_errors[selected.checkstyle[i]])

\* both errors of a two-entry category and the one error of another drawn
C33_Witness ==
    /\ SampledByCategory /\ CategoriesSelected
    /\ Val(adapter_call.selected_categories).build = <<"CompileTimeErrors", "NullHandling">>
    /\ Cardinality(DrawnFrom("build", "CompileTimeErrors")) = 2
    /\ Cardinality(DrawnFrom("build", "NullHandling")) = 1

\* C34: on every state a completed evaluate_code_node call produces, the
\* router of workflow/conditions.py and the router of langgraph_workflow.py
\* decide the same, and they decide "regenerate_code" exactly when
\* current_step is "regenerate"
C34_RoutersAgree ==
    (last_call = Call("evaluate_code_node", FALSE) /\ ~IsNone(state.code_snippet))
    => /\ should_regenerate_or_review(state) = graph_should_regenerate_or_review(state)
       /\ should_regenerate_or_review(state) = "regenerate_code"
              <=> state.current_step = "regenerate"

\* an incomplete evaluation within the budget whose result names no
\* missing defect: both routers follow current_step
C34_Witness ==
    /\ last_call = Call("evaluate_code_node", FALSE)
    /\ ~IsNone(state.code_snippet)
    /\ state.current_step = "regenerate"
    /\ ~Val(state.evaluation_result).valid
    /\ Val(state.evaluation_result).missing_errors = <<>>
    /\ should_regenerate_or_review(state) = "regenerate_code"

\* C35: in every state reached from a fresh session by submit_review calls
\* the history holds current_iteration - 1 attempts, each with a completed
\* analysis
C35_HistoryCountsIterations ==
    /\ Len(state.review_history) = state.current_iteration - 1
    /\ \A i \in DOMAIN state.review_history : ~IsNone(state.review_history[i].analysis)

\* C36: after an entry point completes successfully the state's error field
\* is empty: an error left by an earlier failed call does not survive
C36_SuccessClearsError ==
    [][(/\ last_call'.op \in {"generate_code_node", "regenerate_code_node",
                              "evaluate_code_node", "submit_review"}
        /\ ~last_call'.failed)
       => state'.error = NoError]_vars

\* C37: after generate_code_node has produced a new problem on a used
\* state the review loop is at its start: empty review_history,
\* current_iteration = 1, review_sufficient false
C37_GenerationRestartsReview ==
    [][(/\ last_call'.op = "generate_code_node"
        /\ ~last_call'.failed
        /\ ~IsNone(state'.code_snippet))
       => /\ state'.review_history = <<>>
          /\ state'.current_iteration = 1
          /\ state'.review_sufficient = FALSE]_vars

\* C38: whenever generate_code_problem finishes without reporting an error
\* the state it stores has current_step = "review", and the run has called
\* evaluate_code_node at most max_evaluation_attempts times and
\* regenerate_code_node at most max_evaluation_attempts - 1 times
C38_DriverEndsInReview ==
    node = "done"
    => /\ state.current_step = "review"
       /\ evals_in_run <= state.max_evaluation_attempts
       /\ regens_in_run <= state.max_evaluation_attempts - 1

\* C39: whenever the submit callback of the review tab switches to the
\* feedback tab, the feedback tab's completion gate holds in the stored
\* state, and the gate is the predicate under which should_continue_review
\* returns "generate_summary"
C39_FeedbackTabShowsFeedback ==
    [][(last_call'.op = "submit_review" /\ switches_to_feedback(state'))
       => /\ review_completed(state')
          /\ should_continue_review(state') = "generate_summary"]_vars

====
